---- MODULE Spec2Model ----
(***************************************************************************)
(* Model of lighthouse-core/runner.js: Runner.run(driver, opts).           *)
(*                                                                         *)
(* A run is the synchronous body of Runner.run (lines 28-120), which       *)
(* mutates the caller's opts object, warns, classifies the config and      *)
(* builds a chain of .then callbacks, followed by the callbacks of that    *)
(* chain, each one a step of its own.  The collaborators (GatherRunner,    *)
(* assetSaver, the audits, Aggregator, log) are opaque: what they return   *)
(* and whether they fail is chosen nondeterministically, and every call    *)
(* made to them is recorded with its arguments.                            *)
(*                                                                         *)
(* Strings that the code takes apart (the URL) are sequences of one-       *)
(* character strings.  A JavaScript value that may be undefined/null is    *)
(* NULL or Some(v).                                                        *)
(***************************************************************************)
EXTENDS Integers, Sequences, FiniteSets, TLC

\* ------------------------------------------------------------------ bounds
\* The longest config.audits list.
MaxAudits == 2
\* The longest config.auditResults list.
MaxResults == 2

\* ------------------------------------------------------- optional values
NULL == <<>>
Some(v) == <<v>>
Truthy(x) == x # NULL

\* ------------------------------------------------------------ url module
\* The URL strings a caller may pass as opts.url.
UrlHttp == <<"h","t","t","p",":","/","/","a">>
UrlHttps == <<"h","t","t","p","s",":","/","/","A","/">>
UrlNoScheme == <<"a">>
UrlXhttps == <<"x","h","t","t","p","s",":","/","/","a">>
Urls == {UrlHttp, UrlHttps, UrlNoScheme, UrlXhttps}

UpperChars == <<"A","H","P","S","T","X">>
LowerChars == <<"a","h","p","s","t","x">>
\* String.prototype.toLowerCase on one character.
ToLowerChar(c) ==
  IF \E i \in 1..Len(UpperChars) : UpperChars[i] = c
  THEN LowerChars[CHOOSE i \in 1..Len(UpperChars) : UpperChars[i] = c]
  ELSE c
ToLowerCase(s) == [i \in 1..Len(s) |-> ToLowerChar(s[i])]

\* String.prototype.includes: t occurs in s as a substring.
Includes(s, t) ==
  \E i \in 0..(Len(s) - Len(t)) : SubSeq(s, i + 1, i + Len(t)) = t

\* The characters of url.js's protocolPattern /^([a-z0-9.+-]+:)/i.
SchemeChars ==
  {"a","h","p","s","t","x","A","H","P","S","T","X","0","1",".","+","-"}
\* Index of the ':' that ends the protocol, 0 when the string has none.
ProtocolEnd(u) ==
  LET ends == {k \in 2..Len(u) :
                 u[k] = ":" /\ \A j \in 1..(k - 1) : u[j] \in SchemeChars}
  IN IF ends = {} THEN 0 ELSE CHOOSE k \in ends : \A m \in ends : k <= m
\* url.js's slashedProtocol table (the entries with the colon).
SlashedProtocol ==
  { <<"h","t","t","p",":">>, <<"h","t","t","p","s",":">>, <<"f","t","p",":">>,
    <<"g","o","p","h","e","r",":">>, <<"f","i","l","e",":">> }
\* Length of the host: up to the first of '/', '?', '#'.
HostEnd(rest) ==
  LET stops == {k \in 1..Len(rest) : rest[k] \in {"/", "?", "#"}}
  IN IF stops = {} THEN Len(rest)
     ELSE (CHOOSE k \in stops : \A m \in stops : k <= m) - 1

\* url.parse(str) for strings without auth, port, query or hash.
urlParse(u) ==
  LET k == ProtocolEnd(u)
      protocol == IF k = 0 THEN NULL ELSE Some(ToLowerCase(SubSeq(u, 1, k)))
      rest == SubSeq(u, k + 1, Len(u))
      slashes == k > 0 /\ Len(rest) >= 2 /\ rest[1] = "/" /\ rest[2] = "/"
      afterSlashes == IF slashes THEN SubSeq(rest, 3, Len(rest)) ELSE rest
      parseHost == slashes \/ (k > 0 /\ protocol[1] \notin SlashedProtocol)
      he == IF parseHost THEN HostEnd(afterSlashes) ELSE 0
      hostname == IF parseHost
                  THEN Some(ToLowerCase(SubSeq(afterSlashes, 1, he)))
                  ELSE NULL
      remaining == SubSeq(afterSlashes, he + 1, Len(afterSlashes))
      slashed == k > 0 /\ protocol[1] \in SlashedProtocol
      pathname == IF remaining # <<>> THEN Some(remaining)
                  ELSE IF slashed /\ Truthy(hostname) /\ hostname[1] # <<>>
                       THEN Some(<<"/">>)
                       ELSE NULL
  IN [protocol |-> protocol, slashes |-> slashes,
      hostname |-> hostname, pathname |-> pathname]

\* url.format(urlObject) of an object url.parse returned.
urlFormat(p) ==
  LET protocol == IF Truthy(p.protocol) THEN p.protocol[1] ELSE <<>>
      hasHost == Truthy(p.hostname) /\ p.hostname[1] # <<>>
      hostStr == IF hasHost THEN p.hostname[1] ELSE <<>>
      path0 == IF Truthy(p.pathname) THEN p.pathname[1] ELSE <<>>
      withSlashes ==
        p.slashes \/ ((protocol = <<>> \/ protocol \in SlashedProtocol) /\ hasHost)
      host == IF withSlashes THEN <<"/", "/">> \o hostStr ELSE hostStr
      pathname == IF withSlashes /\ path0 # <<>> /\ path0[1] # "/"
                  THEN <<"/">> \o path0 ELSE path0
  IN protocol \o host \o pathname

StrHttps == <<"h","t","t","p","s">>
StrHttpLocalhost ==
  <<"h","t","t","p",":","/","/","l","o","c","a","l","h","o","s","t">>
\* Line 37: parsedURL.protocol is dereferenced; null.includes is a TypeError.
ProtocolCheckThrows(parsedURL) == ~Truthy(parsedURL.protocol)
\* Line 37: the condition under which the two warnings are logged.
ShouldWarn(parsedURL) ==
  \/ ~Includes(parsedURL.protocol[1], StrHttps)
  \/ parsedURL.hostname = Some(StrHttpLocalhost)

\* --------------------------------------------------------- collaborators
\* config.passes, when present.
Passes == <<"pass1">>
\* The i-th audit descriptor of config.audits: audit.meta.description and
\* the audit function, whose behaviour is chosen when it is called.
AuditDescriptor(i) == [meta |-> [description |-> i]]
AuditList(n) == [i \in 1..n |-> AuditDescriptor(i)]
\* What an audit function may return: result objects with a name field.
AuditResultVals ==
  { [name |-> "a", score |-> 0], [name |-> "a", score |-> 1],
    [name |-> "b", score |-> 0] }
\* Artifacts objects: what GatherRunner.run may resolve to.
ArtifactVals == {"art1", "art2"}
\* config.artifacts, when present.
ConfigArtifacts == "art1"
\* config.aggregations, when present, and what Aggregator.aggregate returns.
AggregationSpec == <<"agg1">>
AggregationRets == { <<"s1", "s2">>, <<"s2", "s1">> }

RECURSIVE SeqsUpTo(_, _)
\* All sequences over S of length at most n.
SeqsUpTo(S, n) ==
  IF n = 0 THEN { <<>> }
  ELSE LET shorter == SeqsUpTo(S, n - 1)
       IN shorter \cup { Append(q, x) : q \in shorter, x \in S }

\* config.auditResults, when the config also has audits to run with passes or
\* artifacts: Runner.run does not read the field then (line 88 is not reached).
UnreadAuditResults == << [name |-> "a", score |-> 1] >>
\* The configurations a caller may pass as opts.config.
Configs ==
  { c \in [ passes : {NULL, Some(Passes)},
            audits : {NULL} \cup { Some(AuditList(n)) : n \in 0..MaxAudits },
            artifacts : {NULL, Some(ConfigArtifacts)},
            auditResults : {NULL}
              \cup { Some(l) : l \in SeqsUpTo(AuditResultVals, MaxResults) },
            aggregations : {NULL, Some(AggregationSpec)} ] :
      (Truthy(c.audits) /\ (Truthy(c.passes) \/ Truthy(c.artifacts)))
        => c.auditResults \in {NULL, Some(UnreadAuditResults)} }
Flags == [ saveArtifacts : BOOLEAN, saveAssets : BOOLEAN ]

\* ------------------------------------------------------------------ state
VARIABLES
  opts,   \* the callers' options objects: url, initialUrl, driver, config, flags
  run,    \* per call of Runner.run: its promise chain and its outcome
  calls,  \* per run: the calls made to GatherRunner, assetSaver, audits, Aggregator
  log     \* per run: the calls made to log.warn, log.log, log.verbose
vars == <<opts, run, calls, log>>

Runs == DOMAIN run
\* The options object and the config of run r.
OptsOf(r) == opts[run[r].opts]
ConfigOf(r) == OptsOf(r).config
\* The number of audits run r is configured with.
NumAudits(config) == IF Truthy(config.audits) THEN Len(config.audits[1]) ELSE 0

\* Mutant of validPassesAndAudits: the audits are not asked for.
validPassesOnly(config) == Truthy(config.passes)
\* Lines 43 and 46.
validPassesAndAudits(config) == Truthy(config.passes) /\ Truthy(config.audits)
validArtifactsAndAudits(config) == Truthy(config.artifacts) /\ Truthy(config.audits)
\* Line 88.
hasAuditResults(config) == Truthy(config.auditResults)
\* Mutant of ConfigThrows: the final else branch is missing.
ConfigNeverThrows(config) == FALSE
\* Lines 53-94: no branch of the if/else-if applies, so line 92 throws.
ConfigThrows(config) ==
  ~(validPassesAndAudits(config) \/ validArtifactsAndAudits(config))
  /\ ~hasAuditResults(config)

\* Mutant of ArtifactsStage: the gatherer runs whenever there are audits.
AlwaysGatherStage(config) == <<"gather">>
\* Lines 54-60: the first callback of the chain.
ArtifactsStage(config) ==
  IF validPassesAndAudits(config) THEN <<"gather">> ELSE <<"artifacts">>
\* Mutant of BuildChain: the aggregation callbacks are chained whether or not
\* config.aggregations is there.
BuildChainAlwaysAggregating(config, flags) ==
  (IF validPassesAndAudits(config) \/ validArtifactsAndAudits(config)
   THEN ArtifactsStage(config)
        \o (IF flags.saveArtifacts THEN <<"saveArtifacts">> ELSE <<>>)
        \o (IF flags.saveAssets THEN <<"saveAssets">> ELSE <<>>)
        \o <<"audits">>
   ELSE <<"auditResults">>)
  \o <<"aggregate", "assemble">>
\* Lines 53-118: the .then callbacks Runner.run chains, in order.
BuildChain(config, flags) ==
  (IF validPassesAndAudits(config) \/ validArtifactsAndAudits(config)
   THEN ArtifactsStage(config)
        \o (IF flags.saveArtifacts THEN <<"saveArtifacts">> ELSE <<>>)
        \o (IF flags.saveAssets THEN <<"saveAssets">> ELSE <<>>)
        \o <<"audits">>
   ELSE <<"auditResults">>)
  \o (IF Truthy(config.aggregations) THEN <<"aggregate", "assemble">> ELSE <<>>)

\* The errors a run can end with.
TypeErrorNull == <<"TypeError", 0>>
ConfigError == <<"ConfigError", 0>>
GatherError == <<"GatherError", 0>>
SaveArtifactsError == <<"SaveArtifactsError", 0>>
SaveAssetsError == <<"SaveAssetsError", 0>>
AuditError(i) == <<"AuditError", i>>
AggregateError == <<"AggregateError", 0>>

\* A callback of the chain returned: the next callback is queued, or, after
\* the last one, the promise Runner.run returned is resolved with result.
Continue(rn, result) ==
  LET rest == Tail(rn.chain)
  IN IF rest = <<>>
     THEN [rn EXCEPT !.chain = <<>>, !.wait = "settled",
                     !.state = "resolved", !.result = Some(result)]
     ELSE [rn EXCEPT !.chain = rest, !.wait = "ready"]
\* Mutant of Reject: the failure is swallowed and the failed callback is run
\* again.
RetryStage(rn, err) == [rn EXCEPT !.wait = "ready"]
\* A callback threw or a promise it returned rejected: the remaining
\* callbacks are skipped and the promise Runner.run returned is rejected.
Reject(rn, err) ==
  [rn EXCEPT !.chain = <<>>, !.wait = "settled",
             !.state = "rejected", !.error = Some(err)]

IdleRun(o, config) ==
  [ opts |-> o, driver |-> "driver", given |-> NULL,
    chain |-> <<>>, wait |-> "idle",
    artifacts |-> NULL, gatherRet |-> NULL, auditResults |-> NULL,
    gather |-> "uncalled", aggregate |-> "uncalled",
    audit |-> [i \in 1..NumAudits(config) |-> "uncalled"],
    auditRet |-> [i \in 1..NumAudits(config) |-> NULL],
    completed |-> <<>>, aggregations |-> NULL,
    persist |-> [artifacts |-> "none", assets |-> "none"],
    state |-> "none", result |-> NULL, error |-> NULL ]
NoCalls(config) ==
  [ gather |-> <<>>, saveArtifacts |-> <<>>, saveAssets |-> <<>>,
    audit |-> [i \in 1..NumAudits(config) |-> <<>>], aggregate |-> <<>> ]
NoLog(config) ==
  [ warn |-> 0,
    status |-> [i \in 1..NumAudits(config) |-> 0],
    statusEnd |-> [i \in 1..NumAudits(config) |-> 0] ]

\* One caller, one options object, one call of Runner.run not yet made.
Init ==
  \E u \in Urls, c \in Configs, f \in Flags :
    /\ opts = [o \in {1} |-> [url |-> u, initialUrl |-> NULL, driver |-> NULL,
                              config |-> c, flags |-> f]]
    /\ run = [r \in {1} |-> IdleRun(1, c)]
    /\ calls = [r \in {1} |-> NoCalls(c)]
    /\ log = [r \in {1} |-> NoLog(c)]

\* ---------------------------------------------------------------- actions
\* Lines 28-120, the synchronous body of Runner.run(driver, opts): the
\* options object is written (lines 32, 35, 55) before anything is checked.
RunCall(r) ==
  /\ run[r].wait = "idle"
  /\ LET o == run[r].opts
         config == opts[o].config
         parsedURL == urlParse(opts[o].url)
         written == [opts[o] EXCEPT !.initialUrl = Some(opts[o].url),
                                    !.url = urlFormat(parsedURL)]
     IN IF ProtocolCheckThrows(parsedURL)
        THEN /\ opts' = [opts EXCEPT ![o] = written]
             /\ run' = [run EXCEPT ![r] = [@ EXCEPT !.given = Some(opts[o].url),
                                                    !.wait = "settled",
                                                    !.state = "threw",
                                                    !.error = Some(TypeErrorNull)]]
             /\ UNCHANGED <<calls, log>>
        ELSE /\ log' = [log EXCEPT ![r].warn =
                          IF ShouldWarn(parsedURL) THEN @ + 2 ELSE @]
             /\ IF ConfigThrows(config)
                THEN /\ opts' = [opts EXCEPT ![o] = written]
                     /\ run' = [run EXCEPT ![r] = [@ EXCEPT !.given = Some(opts[o].url),
                                                            !.wait = "settled",
                                                            !.state = "threw",
                                                            !.error = Some(ConfigError)]]
                ELSE /\ opts' = [opts EXCEPT ![o] =
                                   IF validPassesAndAudits(config)
                                   THEN [written EXCEPT !.driver = Some(run[r].driver)]
                                   ELSE written]
                     /\ run' = [run EXCEPT ![r] =
                                  [@ EXCEPT !.given = Some(opts[o].url),
                                            !.chain = BuildChain(config, opts[o].flags),
                                            !.wait = "ready", !.state = "pending"]]
             /\ UNCHANGED calls

\* The callback of a stage is the next to run.
AtStage(r, stage) ==
  /\ run[r].wait = "ready"
  /\ run[r].chain # <<>>
  /\ Head(run[r].chain) = stage

\* Line 57: GatherRunner.run(config.passes, opts) is called; its promise is
\* awaited.
GatherStart(r) ==
  /\ AtStage(r, "gather")
  /\ calls' = [calls EXCEPT ![r].gather =
                 Append(@, [passes |-> ConfigOf(r).passes, opts |-> run[r].opts,
                            driver |-> OptsOf(r).driver])]
  /\ run' = [run EXCEPT ![r].wait = "gather", ![r].gather = "pending"]
  /\ UNCHANGED <<opts, log>>
\* The promise of GatherRunner.run resolves to some artifacts.
GatherResolve(r, a) ==
  /\ run[r].wait = "gather"
  /\ run' = [run EXCEPT ![r] =
               Continue([@ EXCEPT !.artifacts = Some(a), !.gatherRet = Some(a),
                                  !.gather = "resolved"], a)]
  /\ UNCHANGED <<opts, calls, log>>
\* GatherRunner.run throws or its promise rejects.
GatherReject(r) ==
  /\ run[r].wait = "gather"
  /\ run' = [run EXCEPT ![r] = Reject([@ EXCEPT !.gather = "rejected"], GatherError)]
  /\ UNCHANGED <<opts, calls, log>>

\* Line 59: the chain's value becomes config.artifacts.
UseConfigArtifacts(r) ==
  /\ AtStage(r, "artifacts")
  /\ run' = [run EXCEPT ![r] =
               Continue([@ EXCEPT !.artifacts = ConfigOf(r).artifacts],
                        ConfigOf(r).artifacts[1])]
  /\ UNCHANGED <<opts, calls, log>>

\* Mutant of PassThrough: the callback returns what the assetSaver call returned.
ReturnSaverResult(artifacts, returned) == returned
\* The value a persistence callback returns to the chain (lines 67, 75),
\* given the artifacts it received and what the assetSaver call returned.
PassThrough(artifacts, returned) == artifacts
\* What assetSaver.saveArtifacts / saveAssets may return.
SaverRets == {"undefined", "art2"}

\* Lines 65-68: assetSaver.saveArtifacts(artifacts) is called and its return
\* value dropped; the call may throw, and work it started is not awaited.
SaveArtifacts(r, throws, ret) ==
  /\ AtStage(r, "saveArtifacts")
  /\ calls' = [calls EXCEPT ![r].saveArtifacts = Append(@, run[r].artifacts[1])]
  /\ run' = [run EXCEPT ![r] =
               IF throws
               THEN Reject([@ EXCEPT !.persist.artifacts = "threw"], SaveArtifactsError)
               ELSE LET a == PassThrough(@.artifacts[1], ret)
                    IN Continue([@ EXCEPT !.artifacts = Some(a),
                                          !.persist.artifacts = "pending"], a)]
  /\ UNCHANGED <<opts, log>>
\* Lines 73-76: assetSaver.saveAssets(opts, artifacts), likewise.
SaveAssets(r, throws, ret) ==
  /\ AtStage(r, "saveAssets")
  /\ calls' = [calls EXCEPT ![r].saveAssets =
                 Append(@, [opts |-> run[r].opts, artifacts |-> run[r].artifacts[1]])]
  /\ run' = [run EXCEPT ![r] =
               IF throws
               THEN Reject([@ EXCEPT !.persist.assets = "threw"], SaveAssetsError)
               ELSE LET a == PassThrough(@.artifacts[1], ret)
                    IN Continue([@ EXCEPT !.artifacts = Some(a),
                                          !.persist.assets = "pending"], a)]
  /\ UNCHANGED <<opts, log>>
\* Work a persistence call left running ends, well or badly; nothing in
\* Runner.run holds its promise.
PersistSettle(r, which, ok) ==
  /\ run[r].persist[which] = "pending"
  /\ run' = [run EXCEPT ![r].persist[which] = IF ok THEN "done" ELSE "failed"]
  /\ UNCHANGED <<opts, calls, log>>

\* What the run resolves to when no aggregation is configured: the array
\* of audit results itself.
FlatResult(list) == [array |-> list]

\* Mutant of PromiseAllValue: the values are collected as the audits complete.
CompletionOrderValue(rn) ==
  [k \in 1..Len(rn.completed) |-> rn.auditRet[rn.completed[k]][1]]
\* Promise.all over the audits' promises (line 80): the array of their
\* values, by position in config.audits.
PromiseAllValue(rn) == [i \in 1..Len(rn.auditRet) |-> rn.auditRet[i][1]]
AllResolved(audit) == \A i \in DOMAIN audit : audit[i] = "resolved"
\* Mutant of NothingToAwait: the callback does not return the promise of
\* Promise.all, so the chain goes on with an empty list.
NeverAwaits(n) == TRUE
\* Promise.all of an empty array is resolved at once.
NothingToAwait(n) == n = 0

\* Lines 80-87, the callback that runs the audits: config.audits.map calls,
\* for each audit in turn, log.log('status', ...) and audit.audit(artifacts).
\* An audit function that throws ends the map: thrower is its index, 0 when
\* none throws.  The others return a value or a promise, settled later.
RunAudits(r, thrower) ==
  /\ AtStage(r, "audits")
  /\ LET n == NumAudits(ConfigOf(r))
         called(i) == thrower = 0 \/ i <= thrower
         a == run[r].artifacts[1]
         states == [i \in 1..n |-> IF ~called(i) THEN "uncalled"
                                   ELSE IF i = thrower THEN "threw" ELSE "pending"]
     IN /\ thrower \in 0..n
        /\ log' = [log EXCEPT ![r].status =
                     [i \in 1..n |-> IF called(i) THEN @[i] + 1 ELSE @[i]]]
        /\ calls' = [calls EXCEPT ![r].audit =
                       [i \in 1..n |-> IF called(i) THEN Append(@[i], a) ELSE @[i]]]
        /\ run' = [run EXCEPT ![r] =
                     IF thrower # 0
                     THEN Reject([@ EXCEPT !.audit = states], AuditError(thrower))
                     ELSE IF NothingToAwait(n)
                     THEN Continue([@ EXCEPT !.audit = states,
                                             !.auditResults = Some(<<>>)],
                                   FlatResult(<<>>))
                     ELSE [@ EXCEPT !.audit = states, !.wait = "audits"]]
  /\ UNCHANGED opts
\* Lines 83-86: the promise of audit i resolves to res; 'statusEnd' is
\* logged.  When it was the last one, Promise.all resolves.
AuditResolve(r, i, res) ==
  /\ i \in DOMAIN run[r].audit
  /\ run[r].audit[i] = "pending"
  /\ log' = [log EXCEPT ![r].statusEnd[i] = @ + 1]
  /\ run' = [run EXCEPT ![r] =
               LET rn == [@ EXCEPT !.audit[i] = "resolved",
                                   !.auditRet[i] = Some(res),
                                   !.completed = Append(@, i)]
               IN IF rn.wait = "audits" /\ AllResolved(rn.audit)
                  THEN Continue([rn EXCEPT !.auditResults = Some(PromiseAllValue(rn))],
                                FlatResult(PromiseAllValue(rn)))
                  ELSE rn]
  /\ UNCHANGED <<opts, calls>>
\* The promise of audit i rejects: Promise.all rejects with the first
\* rejection, the audits still pending go on.
AuditReject(r, i) ==
  /\ i \in DOMAIN run[r].audit
  /\ run[r].audit[i] = "pending"
  /\ run' = [run EXCEPT ![r] =
               LET rn == [@ EXCEPT !.audit[i] = "rejected"]
               IN IF rn.wait = "audits" THEN Reject(rn, AuditError(i)) ELSE rn]
  /\ UNCHANGED <<opts, calls, log>>

\* Line 90: the chain's value becomes config.auditResults.
UseAuditResults(r) ==
  /\ AtStage(r, "auditResults")
  /\ run' = [run EXCEPT ![r] =
               Continue([@ EXCEPT !.auditResults = ConfigOf(r).auditResults],
                        FlatResult(ConfigOf(r).auditResults[1]))]
  /\ UNCHANGED <<opts, calls, log>>

\* Lines 99-102: Aggregator.aggregate(config.aggregations, auditResults) is
\* called, and Promise.all awaits what it returned.
Aggregate(r) ==
  /\ AtStage(r, "aggregate")
  /\ calls' = [calls EXCEPT ![r].aggregate =
                 Append(@, [aggregations |-> ConfigOf(r).aggregations,
                            auditResults |-> run[r].auditResults])]
  /\ run' = [run EXCEPT ![r].wait = "aggregate", ![r].aggregate = "pending"]
  /\ UNCHANGED <<opts, log>>
\* Mutant of ReportAggregations: the sequence is turned around.
ReversedAggregations(returned) ==
  [k \in 1..Len(returned) |-> returned[Len(returned) + 1 - k]]
\* results[1] of line 105: what the report carries for what Aggregator.aggregate
\* resolved to.
ReportAggregations(returned) == returned
AggregateResolve(r, g) ==
  /\ run[r].wait = "aggregate"
  /\ run' = [run EXCEPT ![r] =
               Continue([@ EXCEPT !.aggregations = Some(g), !.aggregate = "resolved"],
                        ReportAggregations(g))]
  /\ UNCHANGED <<opts, calls, log>>
\* Aggregator.aggregate throws or its promise rejects.
AggregateReject(r) ==
  /\ run[r].wait = "aggregate"
  /\ run' = [run EXCEPT ![r] = Reject([@ EXCEPT !.aggregate = "rejected"],
                                       AggregateError)]
  /\ UNCHANGED <<opts, calls, log>>

\* Mutant of SetKey: a key already set is kept.
SetKeyOnce(formatted, key, value) ==
  [k \in DOMAIN formatted \cup {key} |->
     IF k \in DOMAIN formatted THEN formatted[k] ELSE value]
\* formatted[audit.name] = audit (line 107).
SetKey(formatted, key, value) ==
  [k \in DOMAIN formatted \cup {key} |-> IF k = key THEN value ELSE formatted[k]]
RECURSIVE reduceAudits(_, _)
\* audits.reduce(..., formatted) of lines 106-109.
reduceAudits(audits, formatted) ==
  IF audits = <<>> THEN formatted
  ELSE reduceAudits(Tail(audits),
                    SetKey(formatted, Head(audits).name, Head(audits)))
formattedAudits(audits) == reduceAudits(audits, <<>>)

\* Lines 103-117: the report is assembled, reading opts as it is now.
Assemble(r) ==
  /\ AtStage(r, "assemble")
  /\ run' = [run EXCEPT ![r] =
               Continue(@, [initialUrl |-> OptsOf(r).initialUrl,
                            url |-> OptsOf(r).url,
                            audits |-> formattedAudits(@.auditResults[1]),
                            aggregations |-> ReportAggregations(@.aggregations[1])])]
  /\ UNCHANGED <<opts, calls, log>>

Next ==
  \/ \E r \in Runs : RunCall(r)
  \/ \E r \in Runs : GatherStart(r)
  \/ \E r \in Runs, a \in ArtifactVals : GatherResolve(r, a)
  \/ \E r \in Runs : GatherReject(r)
  \/ \E r \in Runs : UseConfigArtifacts(r)
  \/ \E r \in Runs, throws \in BOOLEAN, ret \in SaverRets : SaveArtifacts(r, throws, ret)
  \/ \E r \in Runs, throws \in BOOLEAN, ret \in SaverRets : SaveAssets(r, throws, ret)
  \/ \E r \in Runs, which \in {"artifacts", "assets"}, ok \in BOOLEAN :
       PersistSettle(r, which, ok)
  \/ \E r \in Runs, thrower \in 0..MaxAudits : RunAudits(r, thrower)
  \/ \E r \in Runs, i \in 1..MaxAudits, res \in AuditResultVals : AuditResolve(r, i, res)
  \/ \E r \in Runs, i \in 1..MaxAudits : AuditReject(r, i)
  \/ \E r \in Runs : UseAuditResults(r)
  \/ \E r \in Runs : Aggregate(r)
  \/ \E r \in Runs, g \in AggregationRets : AggregateResolve(r, g)
  \/ \E r \in Runs : AggregateReject(r)
  \/ \E r \in Runs : Assemble(r)

Spec == Init /\ [][Next]_vars

\* ---------------------------------------------------------------- two runs
\* The requests of the two-run specification: one per execution mode, the
\* Mode B one with both persistence flags.
RequestA ==
  [ config |-> [passes |-> Some(Passes), audits |-> Some(AuditList(1)),
                artifacts |-> NULL, auditResults |-> NULL,
                aggregations |-> Some(AggregationSpec)],
    flags |-> [saveArtifacts |-> FALSE, saveAssets |-> FALSE] ]
RequestB ==
  [ config |-> [passes |-> NULL, audits |-> Some(AuditList(1)),
                artifacts |-> Some(ConfigArtifacts), auditResults |-> NULL,
                aggregations |-> NULL],
    flags |-> [saveArtifacts |-> TRUE, saveAssets |-> TRUE] ]
RequestC ==
  [ config |-> [passes |-> NULL, audits |-> NULL, artifacts |-> NULL,
                auditResults |-> Some(UnreadAuditResults),
                aggregations |-> Some(AggregationSpec)],
    flags |-> [saveArtifacts |-> FALSE, saveAssets |-> FALSE] ]
Requests == {RequestA, RequestB, RequestC}
UrlsTwo == {UrlHttp, UrlHttps}
OptionsObject(u, q) ==
  [url |-> u, initialUrl |-> NULL, driver |-> NULL,
   config |-> q.config, flags |-> q.flags]
\* Two calls of Runner.run, with drivers of their own, not yet made: either
\* both are given the same options object, or each is given its own.
InitTwo ==
  \E u1, u2 \in UrlsTwo, q1, q2 \in Requests, shared \in BOOLEAN :
    /\ shared => (u1 = u2 /\ q1 = q2)
    /\ opts = IF shared THEN [o \in {1} |-> OptionsObject(u1, q1)]
              ELSE [o \in {1, 2} |-> IF o = 1 THEN OptionsObject(u1, q1)
                                     ELSE OptionsObject(u2, q2)]
    /\ run = [r \in {1, 2} |->
                IF r = 1 THEN IdleRun(1, q1.config)
                ELSE [IdleRun(IF shared THEN 1 ELSE 2, q2.config)
                        EXCEPT !.driver = "driver2"]]
    /\ calls = [r \in {1, 2} |-> NoCalls(IF r = 1 THEN q1.config ELSE q2.config)]
    /\ log = [r \in {1, 2} |-> NoLog(IF r = 1 THEN q1.config ELSE q2.config)]
SpecTwo == InitTwo /\ [][Next]_vars

\* ------------------------------------------------------------ fair runs
\* A Mode A request with every audit, aggregations and both persistence
\* flags.
RequestFull ==
  [ config |-> [passes |-> Some(Passes), audits |-> Some(AuditList(MaxAudits)),
                artifacts |-> NULL, auditResults |-> NULL,
                aggregations |-> Some(AggregationSpec)],
    flags |-> [saveArtifacts |-> TRUE, saveAssets |-> TRUE] ]
\* One call of Runner.run, not yet made, with a request of one of the three
\* modes and any of the URLs.
InitFair ==
  \E u \in Urls, q \in {RequestFull, RequestB, RequestC} :
    /\ opts = [o \in {1} |-> OptionsObject(u, q)]
    /\ run = [r \in {1} |-> IdleRun(1, q.config)]
    /\ calls = [r \in {1} |-> NoCalls(q.config)]
    /\ log = [r \in {1} |-> NoLog(q.config)]
\* Every callback that is queued runs and every collaborator call that was
\* made settles: no step that can be taken is put off for ever.
SpecFair == InitFair /\ [][Next]_vars /\ WF_vars(Next)

\* ----------------------------------------------------------------- claims
\* The three execution modes of a configuration, by the fields it provides.
ModeA(c) == c.passes # NULL /\ c.audits # NULL
ModeB(c) == ~ModeA(c) /\ c.artifacts # NULL /\ c.audits # NULL
ModeC(c) == ~ModeA(c) /\ ~ModeB(c) /\ c.auditResults # NULL
NoMode(c) == ~ModeA(c) /\ ~ModeB(c) /\ ~ModeC(c)
\* Runner.run has been called for run r.
Called(r) == run[r].wait # "idle"
\* Some audit function of run r has been invoked.
AnyAuditCalled(r) == \E i \in DOMAIN calls[r].audit : calls[r].audit[i] # <<>>
NoAuditCalled(r) ==
  /\ \A i \in DOMAIN calls[r].audit : calls[r].audit[i] = <<>>
  /\ \A i \in DOMAIN log[r].status : log[r].status[i] = 0 /\ log[r].statusEnd[i] = 0

\* C1 (as claimed): in Mode A, also when the config carries artifacts or
\* auditResults, a called run invokes GatherRunner.run exactly once, with
\* config.passes; no audit is invoked before that call has resolved; every
\* audit receives the gathered artifacts.
C1_GatherOnceBeforeAudits ==
  \A r \in Runs :
    ModeA(ConfigOf(r)) =>
      /\ Len(calls[r].gather) <= 1
      /\ \A k \in 1..Len(calls[r].gather) :
           calls[r].gather[k].passes = ConfigOf(r).passes
      /\ (Called(r) /\ ~AtStage(r, "gather")) => Len(calls[r].gather) = 1
      /\ \A i \in DOMAIN calls[r].audit :
           calls[r].audit[i] # <<>> =>
             /\ run[r].gatherRet # NULL
             /\ calls[r].audit[i] = << run[r].gatherRet[1] >>
\* C1, for the runs whose call of Runner.run did not throw at line 37: the
\* same statement, which holds of them.
C1_WhenProtocolParsed ==
  \A r \in Runs :
    (ModeA(ConfigOf(r)) /\ run[r].state # "threw") =>
      /\ Len(calls[r].gather) <= 1
      /\ \A k \in 1..Len(calls[r].gather) :
           calls[r].gather[k].passes = ConfigOf(r).passes
      /\ (Called(r) /\ ~AtStage(r, "gather")) => Len(calls[r].gather) = 1
      /\ \A i \in DOMAIN calls[r].audit :
           calls[r].audit[i] # <<>> =>
             /\ run[r].gatherRet # NULL
             /\ calls[r].audit[i] = << run[r].gatherRet[1] >>

\* C2 (as claimed): with a config of none of the three modes, the call
\* fails and no collaborator at all, the log included, has been called.
C2_NoCollaboratorAtAll ==
  \A r \in Runs :
    (NoMode(ConfigOf(r)) /\ Called(r)) =>
      /\ run[r].state = "threw"
      /\ calls[r] = NoCalls(ConfigOf(r))
      /\ log[r] = NoLog(ConfigOf(r))
\* C2 (amended): with a config of none of the three modes, the call of
\* Runner.run throws, and no gathering, persistence, audit or aggregation
\* call is ever made; of the log only the two warnings of line 38-39 may
\* have been written, before the throw.
C2_RejectsBeforeWork ==
  \A r \in Runs :
    (NoMode(ConfigOf(r)) /\ Called(r)) =>
      /\ run[r].state = "threw"
      /\ run[r].error \in {Some(ConfigError), Some(TypeErrorNull)}
      /\ calls[r] = NoCalls(ConfigOf(r))
      /\ NoAuditCalled(r)
      /\ log[r].warn \in {0, 2}
C2_Witness ==
  \E r \in Runs :
    /\ NoMode(ConfigOf(r))
    /\ run[r].state = "threw"
    /\ run[r].error = Some(ConfigError)
    /\ log[r].warn = 2

\* What the promise of each audit of run r resolved to, by position in
\* config.audits (defined once all of them have resolved).
ResolvedByPosition(r) == [i \in 1..Len(run[r].auditRet) |-> run[r].auditRet[i][1]]
\* The audit-result list run r works from: config.auditResults in Mode C,
\* what its audits resolved to in Modes A and B.
ResultList(r) ==
  IF ModeC(ConfigOf(r)) THEN ConfigOf(r).auditResults[1] ELSE ResolvedByPosition(r)
\* The run resolved to a report (an aggregation specification was present).
ResolvedReport(r) ==
  ConfigOf(r).aggregations # NULL /\ run[r].state = "resolved"
\* mapping holds, under each name occurring in list, the last element of
\* list with that name, and nothing else.
KeyedByNameLastWins(mapping, list) ==
  /\ DOMAIN mapping = { list[i].name : i \in DOMAIN list }
  /\ \A n \in DOMAIN mapping :
       \E i \in DOMAIN list :
         /\ list[i].name = n
         /\ mapping[n] = list[i]
         /\ \A j \in DOMAIN list : list[j].name = n => j <= i
DistinctNames(list) ==
  \A i, j \in DOMAIN list : list[i].name = list[j].name => i = j

\* C3 (as claimed): the report of a Mode A or B run with N audits has an
\* audits mapping of exactly N entries, each keyed by its result's name.
C3_ExactlyNEntries ==
  \A r \in Runs :
    ((ModeA(ConfigOf(r)) \/ ModeB(ConfigOf(r))) /\ ResolvedReport(r)) =>
      /\ Cardinality(DOMAIN run[r].result[1].audits) = Len(ConfigOf(r).audits[1])
      /\ \A n \in DOMAIN run[r].result[1].audits : run[r].result[1].audits[n].name = n
\* C3 (amended): the audits mapping has one entry per distinct name among
\* the N audit results, keyed by that name and holding the result of the
\* last audit, in configured order, that has the name, whatever the order of
\* completion; so N entries exactly when the N names are distinct.
C3_OneEntryPerName ==
  \A r \in Runs :
    ((ModeA(ConfigOf(r)) \/ ModeB(ConfigOf(r))) /\ ResolvedReport(r)) =>
      /\ KeyedByNameLastWins(run[r].result[1].audits, ResolvedByPosition(r))
      /\ DistinctNames(ResolvedByPosition(r)) <=>
           Cardinality(DOMAIN run[r].result[1].audits) = Len(ConfigOf(r).audits[1])
C3_Witness ==
  \E r \in Runs :
    /\ ModeA(ConfigOf(r)) /\ ResolvedReport(r)
    /\ run[r].completed = <<2, 1>>
    /\ run[r].auditRet[1][1].name = run[r].auditRet[2][1].name
    /\ run[r].auditRet[1][1] # run[r].auditRet[2][1]

\* C4: in Modes A and B, whatever the order in which the audits complete, the
\* list of audit results has at position i what the i-th audit of
\* config.audits resolved to; that list is what Aggregator.aggregate is
\* handed and what the run resolves to when there is no aggregation.
C4_ConfiguredOrder ==
  \A r \in Runs :
    (ModeA(ConfigOf(r)) \/ ModeB(ConfigOf(r))) =>
      /\ run[r].auditResults # NULL =>
           /\ Len(run[r].auditResults[1]) = Len(ConfigOf(r).audits[1])
           /\ \A i \in DOMAIN run[r].auditResults[1] :
                run[r].auditResults[1][i] = run[r].auditRet[i][1]
      /\ \A k \in 1..Len(calls[r].aggregate) :
           calls[r].aggregate[k].auditResults = Some(ResolvedByPosition(r))
      /\ (run[r].state = "resolved" /\ ConfigOf(r).aggregations = NULL) =>
           run[r].result = Some([array |-> ResolvedByPosition(r)])
C4_Witness ==
  \E r \in Runs :
    /\ ModeB(ConfigOf(r))
    /\ run[r].completed = <<2, 1>>
    /\ run[r].auditRet[1][1] # run[r].auditRet[2][1]
    /\ Len(calls[r].aggregate) = 1

\* C5: in Mode C the gathering collaborator is never invoked, no audit
\* function is invoked, and the audits mapping of the report is built from
\* config.auditResults alone.
C5_ModeCPassthrough ==
  \A r \in Runs :
    ModeC(ConfigOf(r)) =>
      /\ calls[r].gather = <<>>
      /\ NoAuditCalled(r)
      /\ ResolvedReport(r) =>
           KeyedByNameLastWins(run[r].result[1].audits, ConfigOf(r).auditResults[1])
C5_Witness ==
  \E r \in Runs :
    /\ ModeC(ConfigOf(r)) /\ ResolvedReport(r)
    /\ ConfigOf(r).passes # NULL
    /\ Len(ConfigOf(r).auditResults[1]) = 2
    /\ Cardinality(DOMAIN run[r].result[1].audits) = 2

\* C6: in Mode B the gathering collaborator is never invoked, and every
\* audit that is invoked receives config.artifacts.
C6_ModeBNoGather ==
  \A r \in Runs :
    ModeB(ConfigOf(r)) =>
      /\ calls[r].gather = <<>>
      /\ \A i \in DOMAIN calls[r].audit :
           calls[r].audit[i] \in { <<>>, << ConfigOf(r).artifacts[1] >> }
C6_Witness ==
  \E r \in Runs :
    /\ ModeB(ConfigOf(r))
    /\ Len(ConfigOf(r).audits[1]) = 2
    /\ \A i \in DOMAIN calls[r].audit : calls[r].audit[i] # <<>>

\* C7: with flags.saveArtifacts in Mode A or B, assetSaver.saveArtifacts is
\* called at most once, with the artifacts the chain produced (gathered, or
\* config.artifacts), and every later saveAssets call and audit call
\* receives that same value, whatever the assetSaver calls returned.
C7_PersistencePassesThrough ==
  \A r \in Runs :
    ((ModeA(ConfigOf(r)) \/ ModeB(ConfigOf(r))) /\ OptsOf(r).flags.saveArtifacts) =>
      /\ Len(calls[r].saveArtifacts) <= 1
      /\ \A k \in 1..Len(calls[r].saveArtifacts) :
           calls[r].saveArtifacts[k] =
             IF ModeA(ConfigOf(r)) THEN run[r].gatherRet[1]
             ELSE ConfigOf(r).artifacts[1]
      /\ \A k \in 1..Len(calls[r].saveAssets) :
           /\ Len(calls[r].saveArtifacts) = 1
           /\ calls[r].saveAssets[k].artifacts = calls[r].saveArtifacts[1]
      /\ \A i \in DOMAIN calls[r].audit :
           calls[r].audit[i] # <<>> =>
             /\ Len(calls[r].saveArtifacts) = 1
             /\ calls[r].audit[i] = << calls[r].saveArtifacts[1] >>
C7_Witness ==
  \E r \in Runs :
    /\ ModeA(ConfigOf(r))
    /\ OptsOf(r).flags.saveArtifacts /\ OptsOf(r).flags.saveAssets
    /\ Len(calls[r].saveArtifacts) = 1 /\ Len(calls[r].saveAssets) = 1
    /\ calls[r].saveArtifacts[1] = "art2"
    /\ Len(calls[r].audit) = 2
    /\ \A i \in DOMAIN calls[r].audit : calls[r].audit[i] # <<>>

\* C8: Aggregator.aggregate is never called more than once, and a run that
\* resolves under a config with an aggregation specification, in any of the
\* three modes, has called it exactly once, with config.aggregations and
\* the full audit-result list, and its report's aggregations are exactly
\* the sequence the call resolved to.
C8_AggregationsUnmodified ==
  \A r \in Runs :
    /\ Len(calls[r].aggregate) <= 1
    /\ ResolvedReport(r) =>
         /\ Len(calls[r].aggregate) = 1
         /\ calls[r].aggregate[1].aggregations = ConfigOf(r).aggregations
         /\ calls[r].aggregate[1].auditResults = Some(ResultList(r))
         /\ run[r].aggregations # NULL
         /\ run[r].result[1].aggregations = run[r].aggregations[1]
C8_Witness ==
  \E r \in Runs :
    /\ ModeA(ConfigOf(r)) /\ ResolvedReport(r)
    /\ Len(ResultList(r)) = 2
    /\ run[r].result[1].aggregations = <<"s2", "s1">>
\* The same case in Modes B and C.
C8_WitnessOtherModes ==
  \E r \in Runs :
    /\ ~ModeA(ConfigOf(r)) /\ ResolvedReport(r)
    /\ run[r].result[1].aggregations = <<"s1", "s2">>

\* C9: without an aggregation specification Aggregator.aggregate is never
\* called, and a run that resolves resolves to the flat array of audit
\* results (config.auditResults itself in Mode C), not to a report.
C9_FlatResults ==
  \A r \in Runs :
    ConfigOf(r).aggregations = NULL =>
      /\ calls[r].aggregate = <<>>
      /\ run[r].state = "resolved" => run[r].result = Some([array |-> ResultList(r)])
C9_Witness ==
  \E r \in Runs :
    /\ ModeC(ConfigOf(r)) /\ ConfigOf(r).aggregations = NULL
    /\ run[r].state = "resolved"
    /\ Len(run[r].result[1].array) = 2

\* The scheme of a URL string as the caller wrote it: the characters before
\* the first ':', when they are scheme characters; case does not matter.
HasScheme(u) == ProtocolEnd(u) # 0
SchemeIsHttps(u) ==
  HasScheme(u) /\ ToLowerCase(SubSeq(u, 1, ProtocolEnd(u) - 1)) = StrHttps
\* C10 (as claimed): a run has logged exactly two warnings when the scheme of
\* the URL it was given is not https, and none when it is https.
C10_TwoWarningsOrNone ==
  \A r \in Runs :
    Called(r) =>
      log[r].warn = IF SchemeIsHttps(OptsOf(r).initialUrl[1]) THEN 0 ELSE 2
\* C10, its second half alone, which holds: never one warning nor more than two.
C10_NeverOneNorMany == \A r \in Runs : log[r].warn \in {0, 2}
\* C10, for URLs whose protocol is "http:" or "https:", of which it holds.
C10_HttpOrHttps ==
  \A r \in Runs :
    (Called(r) /\ OptsOf(r).initialUrl[1] \in {UrlHttp, UrlHttps}) =>
      log[r].warn = IF SchemeIsHttps(OptsOf(r).initialUrl[1]) THEN 0 ELSE 2

\* The runs r and q were given the same options object.
SameOptions(r, q) == run[r].opts = run[q].opts
\* C11 (as claimed): Runner.run leaves the options object as the caller
\* made it (url as given, no initialUrl, no driver), and two runs given the
\* same options object report the same initialUrl and the same url.
C11_OptionsUnchanged ==
  /\ \A o \in DOMAIN opts :
       /\ opts[o].initialUrl = NULL
       /\ opts[o].driver = NULL
       /\ \A r \in Runs : (run[r].opts = o /\ Called(r)) => opts[o].url = run[r].given[1]
  /\ \A r, q \in Runs :
       (SameOptions(r, q) /\ ResolvedReport(r) /\ ResolvedReport(q)) =>
         /\ run[r].result[1].initialUrl = run[q].result[1].initialUrl
         /\ run[r].result[1].url = run[q].result[1].url
\* C11, the second half alone: it fails of its own.
C11_ReusedOptionsSameUrls ==
  \A r, q \in Runs :
    (SameOptions(r, q) /\ ResolvedReport(r) /\ ResolvedReport(q)) =>
      /\ run[r].result[1].initialUrl = run[q].result[1].initialUrl
      /\ run[r].result[1].url = run[q].result[1].url

\* The phases of run r whose start Runner.run does order: persistence is
\* called only with artifacts resolved, saveAssets only after saveArtifacts
\* has been called, audits only after the persistence calls have returned,
\* the aggregator only after every audit has resolved.
CallsInPhaseOrder(r) ==
  /\ (calls[r].saveArtifacts # <<>> \/ calls[r].saveAssets # <<>> \/ AnyAuditCalled(r)) =>
       /\ run[r].artifacts # NULL
       /\ ModeA(ConfigOf(r)) => run[r].gather = "resolved"
  /\ (calls[r].saveAssets # <<>> /\ OptsOf(r).flags.saveArtifacts) =>
       calls[r].saveArtifacts # <<>>
  /\ AnyAuditCalled(r) =>
       /\ OptsOf(r).flags.saveArtifacts => calls[r].saveArtifacts # <<>>
       /\ OptsOf(r).flags.saveAssets => calls[r].saveAssets # <<>>
  /\ (calls[r].aggregate # <<>> /\ ~ModeC(ConfigOf(r))) =>
       \A i \in DOMAIN run[r].audit : run[r].audit[i] = "resolved"
\* C12 (as claimed): the phases of a run are strictly sequential, each
\* starting only when the one before has completed; in particular no audit
\* is invoked, and saveAssets is not called, while work of an earlier
\* persistence call is still pending.
C12_PhasesSequential ==
  \A r \in Runs :
    /\ CallsInPhaseOrder(r)
    /\ calls[r].saveAssets # <<>> => run[r].persist.artifacts # "pending"
    /\ AnyAuditCalled(r) =>
         /\ run[r].persist.artifacts # "pending"
         /\ run[r].persist.assets # "pending"
\* C12, without the completion of the persistence work: it holds.
C12_CallsSequential == \A r \in Runs : CallsInPhaseOrder(r)

\* C13 (as claimed): a persistence operation that fails, at the call or in
\* the work it left running, rejects the run with that failure; the run does
\* not resolve.
C13_PersistenceFailureRejects ==
  \A r \in Runs :
    /\ run[r].persist.artifacts \in {"threw", "failed"} =>
         /\ run[r].state # "resolved"
         /\ run[r].wait = "settled" => run[r].error = Some(SaveArtifactsError)
    /\ run[r].persist.assets \in {"threw", "failed"} =>
         /\ run[r].state # "resolved"
         /\ run[r].wait = "settled" =>
              run[r].error \in {Some(SaveArtifactsError), Some(SaveAssetsError)}
\* C13, for a persistence call that throws: it holds.
C13_ThrowRejects ==
  \A r \in Runs :
    /\ run[r].persist.artifacts = "threw" =>
         run[r].state = "rejected" /\ run[r].error = Some(SaveArtifactsError)
    /\ run[r].persist.assets = "threw" =>
         run[r].state = "rejected" /\ run[r].error = Some(SaveAssetsError)

\* C14 (as claimed): the URL step never aborts the run: whatever the URL, a
\* called run has not thrown at line 37, and one that threw did so at the
\* mode classification.
C14_UrlCheckNeverAborts ==
  \A r \in Runs :
    Called(r) =>
      /\ run[r].error # Some(TypeErrorNull)
      /\ run[r].state = "threw" => NoMode(ConfigOf(r))
\* C14, for URLs that have a scheme: it holds.
C14_WithScheme ==
  \A r \in Runs :
    (Called(r) /\ HasScheme(run[r].given[1])) =>
      /\ run[r].error # Some(TypeErrorNull)
      /\ run[r].state = "threw" => NoMode(ConfigOf(r))

\* The promise Runner.run returned for run r has settled.
Settled(r) == run[r].state \in {"resolved", "rejected"}
AuditFailed(r, i) == run[r].audit[i] \in {"rejected", "threw"}
\* C15: while any one gather, persistence, audit or aggregation
\* call of a run has not settled, the promise of the run has not settled,
\* whatever the other calls did.
C15_PendingCallBlocksRun ==
  \A r \in Runs :
    ( \/ run[r].gather = "pending"
      \/ run[r].aggregate = "pending"
      \/ run[r].persist.artifacts = "pending"
      \/ run[r].persist.assets = "pending"
      \/ \E i \in DOMAIN run[r].audit : run[r].audit[i] = "pending" ) => ~Settled(r)
\* The part of C15 that the code keeps: while the gather call or the aggregation call of a run has
\* not settled, the promise of the run has not settled; while an audit call
\* has not settled the run has not resolved, and it is rejected only with the
\* error of another audit, one that failed.
C15_AwaitedCallBlocksRun ==
  \A r \in Runs :
    /\ (run[r].gather = "pending" \/ run[r].aggregate = "pending") => ~Settled(r)
    /\ \A i \in DOMAIN run[r].audit :
         run[r].audit[i] = "pending" =>
           /\ run[r].state # "resolved"
           /\ run[r].state = "rejected" =>
                \E j \in DOMAIN run[r].audit :
                  j # i /\ AuditFailed(r, j) /\ run[r].error = Some(<<"AuditError", j>>)
C15_WitnessAudit ==
  \E r \in Runs :
    /\ run[r].audit = <<"pending", "rejected">>
    /\ run[r].state = "rejected"
\* The other cases of C15: a gather call pending with the run pending, and
\* persistence work pending with the run resolved.
C15_WitnessGather == \E r \in Runs : run[r].gather = "pending" /\ ~Settled(r)
C15_WitnessPersistence ==
  \E r \in Runs : run[r].persist.artifacts = "pending" /\ run[r].state = "resolved"

\* C16: once an audit of a run has failed, the run is rejected with the error
\* of an audit that failed, the aggregation collaborator has not been invoked,
\* and the run has no result.
C16_AuditFailureRejects ==
  \A r \in Runs :
    (\E i \in DOMAIN run[r].audit : AuditFailed(r, i)) =>
      /\ run[r].state = "rejected"
      /\ \E j \in DOMAIN run[r].audit :
           AuditFailed(r, j) /\ run[r].error = Some(<<"AuditError", j>>)
      /\ run[r].result = NULL
      /\ calls[r].aggregate = <<>>
\* Audit 2 rejected while audit 1 resolved and aggregations are configured.
C16_Witness ==
  \E r \in Runs :
    /\ run[r].audit = <<"resolved", "rejected">>
    /\ Truthy(ConfigOf(r).aggregations)
    /\ run[r].state = "rejected"
    /\ run[r].error = Some(<<"AuditError", 2>>)

\* Audit i of run r was invoked exactly once, with the resolved artifacts,
\* after exactly one 'status' log of its own.
InvokedOnce(r, i) ==
  /\ run[r].artifacts # NULL
  /\ calls[r].audit[i] = << run[r].artifacts[1] >>
  /\ log[r].status[i] = 1
\* C17: in Mode A or B, once the audits of a run have been started, every
\* audit of config.audits has been invoked exactly once with the resolved
\* artifacts after its 'status' log, whatever the other audits did.
C17_EveryAuditInvokedOnce ==
  \A r \in Runs :
    AnyAuditCalled(r) => \A i \in DOMAIN calls[r].audit : InvokedOnce(r, i)
\* C17, for the runs none of whose audits threw synchronously: it holds, also
\* while an audit is pending and after one rejected.
C17_WhenNoAuditThrows ==
  \A r \in Runs :
    (AnyAuditCalled(r) /\ \A i \in DOMAIN run[r].audit : run[r].audit[i] # "threw") =>
      \A i \in DOMAIN calls[r].audit : InvokedOnce(r, i)
\* No audit is invoked twice nor with anything but the resolved artifacts.
C17_AtMostOnce ==
  \A r \in Runs :
    \A i \in DOMAIN calls[r].audit :
      calls[r].audit[i] # <<>> => InvokedOnce(r, i)

\* C18: once the gather call of a run has rejected, the run is rejected with
\* the error of GatherRunner.run, GatherRunner.run was invoked exactly once,
\* and no persistence, audit or aggregation call has been made.
C18_GatherFailureRejects ==
  \A r \in Runs :
    run[r].gather = "rejected" =>
      /\ run[r].state = "rejected"
      /\ run[r].error = Some(GatherError)
      /\ run[r].result = NULL
      /\ Len(calls[r].gather) = 1
      /\ calls[r].saveArtifacts = <<>>
      /\ calls[r].saveAssets = <<>>
      /\ NoAuditCalled(r)
      /\ calls[r].aggregate = <<>>
\* A Mode A run with both save flags, audits and aggregations whose gather
\* call rejected.
C18_Witness ==
  \E r \in Runs :
    /\ run[r].gather = "rejected"
    /\ ModeA(ConfigOf(r))
    /\ NumAudits(ConfigOf(r)) = MaxAudits
    /\ Truthy(ConfigOf(r).aggregations)
    /\ OptsOf(r).flags.saveArtifacts /\ OptsOf(r).flags.saveAssets
    /\ run[r].state = "rejected"

\* What run r comes to when it is the only run: its report carries the URL
\* it was given and that URL's canonical form, the audits and aggregations
\* its own collaborators returned; GatherRunner.run gets the driver it was
\* called with; it throws at line 37 exactly when its URL has no scheme.
OutcomeAsAlone(r) ==
  /\ ResolvedReport(r) =>
       /\ run[r].result[1].initialUrl = run[r].given
       /\ run[r].result[1].url = urlFormat(urlParse(run[r].given[1]))
       /\ run[r].result[1].audits = formattedAudits(ResultList(r))
       /\ run[r].result[1].aggregations = ReportAggregations(run[r].aggregations[1])
  /\ \A k \in 1..Len(calls[r].gather) :
       calls[r].gather[k].driver = Some(run[r].driver)
  /\ Called(r) =>
       (run[r].error = Some(TypeErrorNull) <=> ~HasScheme(run[r].given[1]))
\* C19: each of two runs, however their steps interleave, comes to the
\* outcome it has when executed alone with the same inputs.
C19_RunsIndependent == \A r \in Runs : OutcomeAsAlone(r)
\* C19, for the runs that share their options object with no other run: it
\* holds.
C19_OwnOptionsIndependent ==
  \A r \in Runs :
    (\A q \in Runs : SameOptions(r, q) => q = r) => OutcomeAsAlone(r)

\* No gather, audit or aggregation call of run r has failed.
NoAwaitedCallFailed(r) ==
  /\ run[r].gather # "rejected"
  /\ \A i \in DOMAIN run[r].audit : ~AuditFailed(r, i)
  /\ run[r].aggregate # "rejected"
\* No persistence call of run r threw.
NoPersistenceThrew(r) ==
  run[r].persist.artifacts # "threw" /\ run[r].persist.assets # "threw"
\* C20: with a configuration of one of the three modes, when every
\* collaborator call that is made settles, the promise of the run eventually
\* settles, resolved exactly when no gather, audit or aggregation call failed.
C20_SettlesResolvedIffNoFailure ==
  ~NoMode(ConfigOf(1)) =>
    <>(Settled(1) /\ (run[1].state = "resolved" <=> NoAwaitedCallFailed(1)))
\* C20, the termination alone: it fails for a URL without a scheme, where
\* Runner.run throws and returns no promise.
C20_EventuallySettles == ~NoMode(ConfigOf(1)) => <>Settled(1)
\* C20, for the URLs that have a scheme and with a throwing persistence call
\* counted as a failure: it holds.
C20_WithSchemeAndPersistence ==
  (~NoMode(ConfigOf(1)) /\ HasScheme(opts[1].url)) =>
    <>(Settled(1) /\ (run[1].state = "resolved" <=>
                        (NoAwaitedCallFailed(1) /\ NoPersistenceThrew(1))))
\* The safety half of C20: a resolved run had no failed call, and a rejected
\* one had a failed call or a persistence call that threw.
C20_ResolvedIffNoFailure ==
  \A r \in Runs :
    /\ run[r].state = "resolved" => (NoAwaitedCallFailed(r) /\ NoPersistenceThrew(r))
    /\ run[r].state = "rejected" => ~(NoAwaitedCallFailed(r) /\ NoPersistenceThrew(r))
====
